---- MODULE Spec2Model ----
(***************************************************************************)
(* The store of ritual_night_api: the general and premium purchase         *)
(* handlers, the two store listings and the equip handler, over the        *)
(* committed tables users, items, user_items, set_item_association and     *)
(* premium_store_schedules.  A request is a SQLAlchemy session: it reads   *)
(* committed rows (READ COMMITTED, the engine's default), changes its      *)
(* loaded objects in memory and writes them at session.commit(); leaving   *)
(* the handler without commit() closes the session, which rolls back.      *)
(***************************************************************************)
EXTENDS Integers, FiniteSets, Sequences, Bags, TLC

\* Python's None / SQL NULL, and a value that is present: a nullable value is
\* a sequence of length at most one.
None == << >>

Some(x) == <<x>>

Val(o) == o[1]

\* ------------------------------------------------------------------ bounds
MaxSilver == 4
MaxGold == 2
MaxTime == 3
MaxSchedules == 2
MaxManagedSchedules == 1
MaxItems == 5
MaxTokens == 2
MaxClock == 3

Users == {1, 2}
Sessions == {1, 2}
Times == 0 .. MaxTime

\* ----------------------------------------------------------------- schema
\* Columns and relationships of the mapped classes: an attribute outside these
\* sets does not exist on the class.
UserAttrs ==
    {"user_id", "username", "email", "password_hash", "gold_amount",
     "silver_amount", "stats", "user_items", "xp_boosters", "referrals_made",
     "referrals_received"}

ItemAttrs ==
    {"item_id", "item_name", "item_type_id", "silver_cost", "gold_cost",
     "rarity_id", "unity_name", "is_general_store_item", "user_items",
     "item_type", "chromas", "shaders", "items_level_progression", "rarity",
     "item_bundles", "premium_store_sets"}

UserItemAttrs ==
    {"user_item_id", "user_id", "item_id", "item_level", "item_xp",
     "is_equipped", "prestige_level", "selected_chroma_id",
     "selected_shader_id", "favorite", "user", "item", "selected_chroma",
     "selected_shader"}

\* The row UserItem(user_id=u, item_id=i, is_equipped=e) becomes at INSERT:
\* the column defaults fill what the constructor leaves unset, and a column
\* without default is None.  The surrogate key user_item_id is left out: the
\* table is a bag of rows.
UserItemLevelZero(u, i, e) ==
    [user_id |-> u, item_id |-> i, item_level |-> 0, item_xp |-> 0,
     is_equipped |-> e, prestige_level |-> 0, selected_chroma_id |-> None,
     selected_shader_id |-> None, favorite |-> FALSE]

UserItem(u, i, e) ==
    [user_id |-> u, item_id |-> i, item_level |-> 1, item_xp |-> 0,
     is_equipped |-> e, prestige_level |-> 0, selected_chroma_id |-> None,
     selected_shader_id |-> None, favorite |-> FALSE]

\* The catalog the model runs on: two general-store items of one type, a
\* premium item of set 1 and a general-store item of a second type.
Catalog ==
    (1 :> [item_type_id |-> 1, silver_cost |-> Some(1), gold_cost |-> None,
           is_general_store_item |-> TRUE]) @@
    (2 :> [item_type_id |-> 1, silver_cost |-> Some(2), gold_cost |-> None,
           is_general_store_item |-> TRUE]) @@
    (3 :> [item_type_id |-> 2, silver_cost |-> None, gold_cost |-> Some(2),
           is_general_store_item |-> FALSE]) @@
    (4 :> [item_type_id |-> 2, silver_cost |-> Some(1), gold_cost |-> Some(1),
           is_general_store_item |-> TRUE])

\* item_id values a request may carry: the catalog's, 0 and an id of no item.
RequestItemIds == {0, 1, 2, 3, 4, 5}

\* Set 1 holds the premium item and is scheduled from instant 1 to instant 2.
SetItems == {[set_id |-> 1, item_id |-> 3]}

Schedules == {[set_id |-> 1, start_date |-> 1, end_date |-> 2]}

\* The schedule tables of at most n rows over two sets and the instants of
\* Times (start_date and end_date are not compared when a schedule is stored).
SetIds == {1, 2}

ScheduleRows == [set_id : SetIds, start_date : Times, end_date : Times]

RECURSIVE ScheduleTables(_)
ScheduleTables(n) ==
    IF n = 0 THEN {{}}
    ELSE LET smaller == ScheduleTables(n - 1)
         IN  smaller \cup {tbl \cup {row} : tbl \in smaller, row \in ScheduleRows}

\* The premium item in both sets, the general item 4 in set 2 alone.
SetItemsTwoSets ==
    {[set_id |-> 1, item_id |-> 3], [set_id |-> 2, item_id |-> 3],
     [set_id |-> 2, item_id |-> 4]}

\* The association tables the premium store is resolved over: the premium item
\* in set 1 alone, and in both sets with item 4 beside it in set 2.
SetItemTables == {SetItems, SetItemsTwoSets}

\* The chromas and shaders tables, chroma_id -> item_id and shader_id ->
\* item_id: two chromas and a shader of item 1, a chroma of item 2 and a shader
\* of item 4.
Chromas == (1 :> 1) @@ (2 :> 1) @@ (3 :> 2)

Shaders == (1 :> 1) @@ (2 :> 4)

\* chroma_id / shader_id values a request may carry, as the query string holds
\* them: absent or empty, the sentinel, a text that is no number, and numbers.
CosmeticArgs == {"", "c", "x", "0", "1", "2", "3", "4"}

\* int(text): the number a decimal text denotes, or None where int() raises
\* ValueError.
ParseInt(text) ==
    CASE text = "0" -> Some(0)
      [] text = "1" -> Some(1)
      [] text = "2" -> Some(2)
      [] text = "3" -> Some(3)
      [] text = "4" -> Some(4)
      [] OTHER -> None

VARIABLES
    users,        \* users table: user_id -> [gold_amount, silver_amount]
    items,        \* items table: item_id -> row
    user_items,   \* user_items table: bag of rows
    set_items,    \* set_item_association table: set of [set_id, item_id]
    schedules,    \* premium_store_schedules table: set of [set_id, start_date, end_date]
    tokens,       \* tokens table: set of jti
    issued,       \* the tokens handed to clients: jti -> payload
    utcnow,       \* the clock jwt reads
    sess          \* per request slot: the handler's position, locals and response

vars == <<users, items, user_items, set_items, schedules, tokens, issued, utcnow, sess>>

tables == <<users, items, user_items, set_items, schedules, tokens>>

clients == <<issued, utcnow>>

NoResponse == [status |-> 0, body |-> "", details |-> ""]

\* A free request slot.  now is the clock (datetime.utcnow()) of the request;
\* user is the session's User object as the handler changed it, user_loaded
\* the values it was loaded with; pending holds the is_equipped values the
\* handler changed on loaded rows.
Idle ==
    [pc |-> "idle", op |-> "none", user_id |-> 0, item_id |-> 0,
     now |-> 0, user |-> None, user_loaded |-> None, item |-> None,
     user_item |-> None, pending |-> {}, items_list |-> EmptyBag,
     arg |-> "", selected |-> None, jti |-> 0, response |-> NoResponse]

Free(s) == sess[s].pc = "idle"

Request(op, u, i, t) ==
    [Idle EXCEPT !.op = op, !.user_id = u, !.item_id = i, !.now = t]

\* return jsonify(...), status
Respond(r, status, body) ==
    [r EXCEPT !.pc = "done", !.response = [status |-> status, body |-> body, details |-> ""]]

\* except Exception as e: return jsonify({'error': body, 'details': str(e)}), 500
Raise(r, body, exc) ==
    [r EXCEPT !.pc = "done", !.response = [status |-> 500, body |-> body, details |-> exc]]

\* ---------------------------------------------------------------- queries
\* session.query(User).filter_by(user_id=u).first()
QueryUser(u) == IF u \in DOMAIN users THEN Some(users[u]) ELSE None

\* session.query(Item).filter_by(item_id=i, is_general_store_item=True).first()
QueryGeneralItem(i) ==
    IF i \in DOMAIN items /\ items[i].is_general_store_item THEN Some(items[i]) ELSE None

\* Rows of user_items with the given user_id and item_id.
RowsOf(u, i) == {r \in BagToSet(user_items) : r.user_id = u /\ r.item_id = i}

\* user.user_items: the rows of a user.
UserRows(u) == {r \in BagToSet(user_items) : r.user_id = u}

\* Number of committed rows (u, i).
RowCount(u, i) == BagCardinality([r \in RowsOf(u, i) |-> user_items[r]])

\* session.query(UserItem).filter_by(user_id=u, item_id=i).first(): any of the
\* matching rows, or None.
QueryUserItem(u, i) ==
    IF RowsOf(u, i) = {} THEN {None} ELSE {Some(r) : r \in RowsOf(u, i)}

\* UniqueConstraint('user_id', 'item_id'): the INSERT of a row (u, i) fails when
\* a committed row (u, i) exists.
UniqueViolationNone(u, i) == FALSE

UniqueViolation(u, i) == RowsOf(u, i) # {}

\* The UPDATE a flush emits for the session's user object: the columns whose
\* in-memory value differs from the loaded one are written as computed in
\* memory (UPDATE users SET silver_amount=<value> WHERE user_id=<id>).
FlushKeepsDebit(tbl, r, committed) ==
    [tbl EXCEPT ![r.user_id] = Val(r.user)]

Flush(tbl, r, committed) ==
    IF ~committed THEN tbl
    ELSE LET mem == Val(r.user)
             old == Val(r.user_loaded)
             row == tbl[r.user_id]
         IN  [tbl EXCEPT ![r.user_id] =
               [gold_amount |-> IF mem.gold_amount # old.gold_amount
                                THEN mem.gold_amount ELSE row.gold_amount,
                silver_amount |-> IF mem.silver_amount # old.silver_amount
                                  THEN mem.silver_amount ELSE row.silver_amount]]

\* session.add(UserItem(...)) at commit: the INSERT.
Insert(tbl, row, committed) ==
    IF committed THEN tbl (+) SetToBag({row}) ELSE tbl

\* ----------------------------------------------------- buy_general_item
\* Lines 46-61: the arguments, the user and the general-store item.
BuyGeneralBegin(s, u, i) ==
    /\ Free(s)
    /\ LET req == Request("buy_general", u, i, 0)
           user == QueryUser(u)
           item == QueryGeneralItem(i)
       IN  sess' = [sess EXCEPT ![s] =
             IF i = 0 \/ u = 0
             THEN Respond(req, 400, "Item id and User id are required")
             ELSE IF user = None \/ item = None
             THEN Respond(req, 404, "User or Item not found")
             ELSE [req EXCEPT !.pc = "check_owned", !.user = user,
                     !.user_loaded = user, !.item = item]]
    /\ UNCHANGED <<tables, clients>>

\* Lines 68-77: the funds check and the in-memory debit.
BuyGeneralCheckFundsStrict(r) ==
    IF Val(r.item).silver_cost = None
    THEN Raise(r, "Failed to buy item", "TypeError")
    ELSE IF Val(r.user).silver_amount <= Val(Val(r.item).silver_cost)
    THEN Respond(r, 400, "Not enough silver to buy this item")
    ELSE [r EXCEPT !.pc = "commit",
            !.user[1].silver_amount =
                Val(r.user).silver_amount - Val(Val(r.item).silver_cost)]

BuyGeneralCheckFundsGold(r) ==
    IF Val(r.item).silver_cost = None
    THEN Raise(r, "Failed to buy item", "TypeError")
    ELSE IF Val(r.user).silver_amount < Val(Val(r.item).silver_cost)
    THEN Respond(r, 400, "Not enough silver to buy this item")
    ELSE [r EXCEPT !.pc = "commit",
            !.user[1].gold_amount =
                Val(r.user).gold_amount - Val(Val(r.item).silver_cost)]

BuyGeneralCheckFundsSkipped(r) ==
    IF Val(r.item).silver_cost = None
    THEN Raise(r, "Failed to buy item", "TypeError")
    ELSE [r EXCEPT !.pc = "commit",
            !.user[1].silver_amount =
                Val(r.user).silver_amount - Val(Val(r.item).silver_cost)]

BuyGeneralCheckFunds(r) ==
    IF Val(r.item).silver_cost = None
    THEN Raise(r, "Failed to buy item", "TypeError")
    ELSE IF Val(r.user).silver_amount < Val(Val(r.item).silver_cost)
    THEN Respond(r, 400, "Not enough silver to buy this item")
    ELSE [r EXCEPT !.pc = "commit",
            !.user[1].silver_amount =
                Val(r.user).silver_amount - Val(Val(r.item).silver_cost)]

\* ------------------------------------------- store.py: buy_general_item
\* store.py lines 44-59: the arguments, the user and the general-store item.
StoreBuyGeneralBegin(s, u, i) ==
    /\ Free(s)
    /\ LET req == Request("store_buy_general", u, i, 0)
           user == QueryUser(u)
           item == QueryGeneralItem(i)
       IN  sess' = [sess EXCEPT ![s] =
             IF i = 0 \/ u = 0
             THEN Respond(req, 400, "Item id and User id are required")
             ELSE IF user = None \/ item = None
             THEN Respond(req, 404, "User or Item not found")
             ELSE [req EXCEPT !.pc = "check_owned", !.user = user,
                     !.user_loaded = user, !.item = item]]
    /\ UNCHANGED <<tables, clients>>

\* store.py lines 66-75: the funds check reads user.silver, an attribute the
\* User class has or the read raises.
StoreBuyGeneralCheckFunds(r) ==
    IF "silver" \notin UserAttrs
    THEN Raise(r, "Failed to buy item", "AttributeError")
    ELSE BuyGeneralCheckFunds(r)

\* ----------------------------------------------------- buy_premium_item
\* session.query(Item).filter_by(item_id=i, is_premium_store_item=True): the
\* keyword names an attribute of Item, or filter_by raises.
FilterByPremiumRaises == "is_premium_store_item" \notin ItemAttrs

\* Lines 140-146: the item joined with its set associations and their sets'
\* schedules, filtered to the schedules whose window contains t.
AvailableItemStrict(i, t) ==
    /\ i \in DOMAIN items
    /\ \E a \in set_items, sc \in schedules :
         /\ a.item_id = i
         /\ a.set_id = sc.set_id
         /\ sc.start_date < t
         /\ sc.end_date > t

AvailableItem(i, t) ==
    /\ i \in DOMAIN items
    /\ \E a \in set_items, sc \in schedules :
         /\ a.item_id = i
         /\ a.set_id = sc.set_id
         /\ sc.start_date <= t
         /\ sc.end_date >= t

\* Lines 125-148: the arguments, the user, the item and its availability at
\* current_time = t.
BuyPremiumBegin(s, u, i, t) ==
    /\ Free(s)
    /\ LET req == Request("buy_premium", u, i, t)
           user == QueryUser(u)
           item == IF i \in DOMAIN items THEN Some(items[i]) ELSE None
       IN  sess' = [sess EXCEPT ![s] =
             IF i = 0 \/ u = 0
             THEN Respond(req, 400, "Item id and User id are required")
             ELSE IF FilterByPremiumRaises
             THEN Raise(req, "Failed to buy item", "InvalidRequestError")
             ELSE IF user = None \/ item = None
             THEN Respond(req, 404, "User or Item not found")
             ELSE IF ~AvailableItem(i, t)
             THEN Respond(req, 404, "Item is not available for purchase or does not exist")
             ELSE [req EXCEPT !.pc = "check_owned", !.user = user,
                     !.user_loaded = user, !.item = item]]
    /\ UNCHANGED <<tables, clients>>

\* Lines 153-160: the funds check and the in-memory debit.
BuyPremiumCheckFunds(r) ==
    IF Val(r.item).gold_cost = None
    THEN Raise(r, "Failed to buy item", "TypeError")
    ELSE IF Val(r.user).gold_amount < Val(Val(r.item).gold_cost)
    THEN Respond(r, 400, "Not enough gold to buy this item")
    ELSE [r EXCEPT !.pc = "commit",
            !.user[1].gold_amount =
                Val(r.user).gold_amount - Val(Val(r.item).gold_cost)]

\* ------------------------------------- the purchase handlers' common steps
\* buy_general_item lines 64-77 and buy_premium_item lines 150-160: the
\* ownership check, then the handler's funds check and in-memory debit.
PurchaseCheck(s) ==
    /\ sess[s].pc = "check_owned"
    /\ \E user_item \in QueryUserItem(sess[s].user_id, sess[s].item_id) :
         LET r == [sess[s] EXCEPT !.user_item = user_item]
         IN  sess' = [sess EXCEPT ![s] =
               IF user_item # None
               THEN (IF "is_obtained" \in UserItemAttrs
                     THEN Respond(r, 400, "You already own this item")
                     ELSE Raise(r, "Failed to buy item", "AttributeError"))
               ELSE IF r.op = "buy_general" THEN BuyGeneralCheckFunds(r)
               ELSE IF r.op = "store_buy_general" THEN StoreBuyGeneralCheckFunds(r)
               ELSE BuyPremiumCheckFunds(r)]
    /\ UNCHANGED <<tables, clients>>

\* buy_general_item line 80 and buy_premium_item line 162: session.commit()
\* flushes the UPDATE of the user row and the INSERT of the new row in one
\* transaction; when the INSERT fails the exception leaves the handler and
\* session.close() rolls the transaction back.
PurchaseCommit(s) ==
    /\ sess[s].pc = "commit"
    /\ sess[s].op \in {"buy_general", "buy_premium"}
    /\ LET r == sess[s]
           ok == ~UniqueViolation(r.user_id, r.item_id)
       IN  /\ users' = Flush(users, r, ok)
           /\ user_items' = Insert(user_items, UserItem(r.user_id, r.item_id, FALSE), ok)
           /\ sess' = [sess EXCEPT ![s] =
                IF ok THEN Respond(r, 200, "Item bought successfully")
                ELSE Raise(r, "Failed to buy item", "IntegrityError")]
    /\ UNCHANGED <<items, set_items, schedules, tokens, clients>>

\* ------------------------------------------- get_current_premium_items
\* Lines 194-197: the sets joined with their schedules whose window contains t;
\* the query returns each set once.
CurrentSetsStrict(t) ==
    {sc.set_id : sc \in {x \in schedules : x.start_date < t /\ x.end_date > t}}

CurrentSetsInitial(t) ==
    {sc.set_id : sc \in {x \in Schedules : x.start_date <= t /\ x.end_date >= t}}

CurrentSets(t) ==
    {sc.set_id : sc \in {x \in schedules : x.start_date <= t /\ x.end_date >= t}}

\* Line 200: [item.item_id for set in current_sets for item in set.items]
ItemIdsOfSets(sets) ==
    LET ItemId(a) == a.item_id
    IN  BagOfAll(ItemId, SetToBag({a \in set_items : a.set_id \in sets}))

\* Lines 203-209: the items whose id is in item_ids, one entry for each.
CurrentPremiumItemsPerId(t) ==
    LET ids == ItemIdsOfSets(CurrentSets(t))
    IN  [i \in {j \in BagToSet(ids) : j \in DOMAIN items} |-> ids[i]]

CurrentPremiumItems(t) ==
    SetToBag({i \in DOMAIN items : BagIn(i, ItemIdsOfSets(CurrentSets(t)))})

GetCurrentPremiumItems(s, u, t) ==
    /\ Free(s)
    /\ sess' = [sess EXCEPT ![s] =
         [Request("premium_items", u, 0, t) EXCEPT !.pc = "done",
            !.items_list = CurrentPremiumItems(t),
            !.response = [status |-> 200, body |-> "items_list", details |-> ""]]]
    /\ UNCHANGED <<tables, clients>>

\* ----------------------------------------------------- get_store_items
\* Lines 271-277: the general-store items whose id is not among the item ids
\* of the user's rows.
StoreItemsOfAll(u) ==
    SetToBag({i \in DOMAIN items : items[i].is_general_store_item})

StoreItems(u) ==
    SetToBag({i \in DOMAIN items :
                /\ items[i].is_general_store_item
                /\ i \notin {r.item_id : r \in UserRows(u)}})

GetStoreItems(s, u) ==
    /\ Free(s)
    /\ sess' = [sess EXCEPT ![s] =
         [Request("store_items", u, 0, 0) EXCEPT !.pc = "done",
            !.items_list = StoreItems(u),
            !.response = [status |-> 200, body |-> "items_list", details |-> ""]]]
    /\ UNCHANGED <<tables, clients>>

\* ----------------------------------------------------------- equip_item
\* Line 129: the equipped rows of the item type of item_to_equip, among the
\* user's loaded rows.
EquippedOfSameTypeNone(rows, t) == {}

EquippedOfSameType(rows, t) ==
    {r \in rows : r.is_equipped
                  /\ items[r.item_id].item_type_id = items[t.item_id].item_type_id}

\* next(generator, None): the first row the generator yields, in the order the
\* collection was loaded in (no ORDER BY: any order), or None.
First(rows) == IF rows = {} THEN {None} ELSE {Some(r) : r \in rows}

\* Lines 131-134 on the loaded rows, as the UPDATEs the flush emits: a row is
\* written when its final is_equipped differs from the loaded one.
EquipChangesKeepOld(t, e) ==
    {[item_id |-> t.item_id, is_equipped |-> TRUE]}

EquipChanges(t, e) ==
    {[item_id |-> Val(x).item_id, is_equipped |-> FALSE] :
        x \in {y \in {e} : y # None /\ y # Some(t)}}
    \cup {[item_id |-> x.item_id, is_equipped |-> TRUE] :
        x \in {y \in {t} : ~y.is_equipped}}

\* Lines 114-134: the arguments, the user, its rows and the in-memory changes.
EquipBegin(s, u, i) ==
    /\ Free(s)
    /\ LET req == Request("equip_item", u, i, 0)
           user == QueryUser(u)
           rows == UserRows(u)
       IN  \E item_to_equip \in First({r \in rows : r.item_id = i}) :
           \E equipped \in (IF item_to_equip = None THEN {None}
                            ELSE First(EquippedOfSameType(rows, Val(item_to_equip)))) :
             sess' = [sess EXCEPT ![s] =
               IF i = 0
               THEN Respond(req, 400, "Missing required fields")
               ELSE IF user = None
               THEN Respond(req, 404, "User not found")
               ELSE IF item_to_equip = None
               THEN Respond(req, 404, "Item not found")
               ELSE [req EXCEPT !.pc = "commit", !.user = user, !.user_loaded = user,
                       !.user_item = item_to_equip,
                       !.pending = EquipChanges(Val(item_to_equip), equipped)]]
    /\ UNCHANGED <<tables, clients>>

\* UPDATE user_items SET is_equipped=<value> WHERE user_item_id=<the row's>,
\* for every change of the session.
ApplyChangesAllRows(tbl, u, changes) ==
    LET New(r) ==
          IF r.user_id = u /\ changes # {}
          THEN [r EXCEPT !.is_equipped = (CHOOSE c \in changes : TRUE).is_equipped]
          ELSE r
    IN  BagOfAll(New, tbl)

ApplyChanges(tbl, u, changes) ==
    LET New(r) ==
          IF r.user_id = u /\ \E c \in changes : c.item_id = r.item_id
          THEN [r EXCEPT !.is_equipped =
                  (CHOOSE c \in changes : c.item_id = r.item_id).is_equipped]
          ELSE r
    IN  BagOfAll(New, tbl)

\* Line 135: session.commit().
EquipCommit(s) ==
    /\ sess[s].pc = "commit"
    /\ sess[s].op = "equip_item"
    /\ user_items' = ApplyChanges(user_items, sess[s].user_id, sess[s].pending)
    /\ sess' = [sess EXCEPT ![s] = Respond(sess[s], 200, "Item equipped successfully")]
    /\ UNCHANGED <<users, items, set_items, schedules, tokens, clients>>

\* --------------------------------------------------------- unequip_item
\* Line 194 on the loaded row, as the UPDATE the flush emits: the row is
\* written when it was equipped.
UnequipChanges(t) ==
    {[item_id |-> x.item_id, is_equipped |-> FALSE] : x \in {y \in {t} : y.is_equipped}}

\* Lines 179-194: the arguments, the user, the row and the in-memory change.
UnequipBegin(s, u, i) ==
    /\ Free(s)
    /\ LET req == Request("unequip_item", u, i, 0)
           user == QueryUser(u)
           rows == UserRows(u)
       IN  \E item_to_unequip \in First({r \in rows : r.item_id = i}) :
             sess' = [sess EXCEPT ![s] =
               IF i = 0
               THEN Respond(req, 400, "Missing required fields")
               ELSE IF user = None
               THEN Respond(req, 404, "User not found")
               ELSE IF item_to_unequip = None
               THEN Respond(req, 404, "Item not found")
               ELSE [req EXCEPT !.pc = "commit", !.user = user, !.user_loaded = user,
                       !.user_item = item_to_unequip,
                       !.pending = UnequipChanges(Val(item_to_unequip))]]
    /\ UNCHANGED <<tables, clients>>

\* Line 195: session.commit().
UnequipCommit(s) ==
    /\ sess[s].pc = "commit"
    /\ sess[s].op = "unequip_item"
    /\ user_items' = ApplyChanges(user_items, sess[s].user_id, sess[s].pending)
    /\ sess' = [sess EXCEPT ![s] = Respond(sess[s], 200, "Item unequipped successfully")]
    /\ UNCHANGED <<users, items, set_items, schedules, tokens, clients>>

\* ------------------------------- update_item_chroma, update_item_shader
\* item_to_update.item.chromas: the ids of the chromas whose item_id is i.
ItemChromasOfAll(i) == DOMAIN Chromas

ItemChromas(i) == {c \in DOMAIN Chromas : Chromas[c] = i}

\* item_to_update.item.shaders: the ids of the shaders whose item_id is i.
ItemShaders(i) == {c \in DOMAIN Shaders : Shaders[c] = i}

\* Lines 250-274 (chroma) and 331-355 (shader) for the argument arg, the loaded
\* row item_to_update and the ids owned by the row's item: the response, or
\* the value assigned to the selection in memory, kept in selected.
SelectCosmetic(req, user, item_to_update, arg, owned, name) ==
    IF req.item_id = 0 \/ arg = ""
    THEN Respond(req, 400, "Missing required fields")
    ELSE IF user = None
    THEN Respond(req, 404, "User not found")
    ELSE IF item_to_update = None
    THEN Respond(req, 404, "Item not found")
    ELSE LET r == [req EXCEPT !.pc = "commit", !.user = user, !.user_loaded = user,
                     !.user_item = item_to_update]
         IN  IF arg = "c" THEN [r EXCEPT !.selected = Some(None)]
             ELSE IF ParseInt(arg) = None
             THEN Raise(req, "Failed to update item " \o name, "ValueError")
             ELSE IF Val(ParseInt(arg)) \notin owned
             THEN Respond(req, 404, IF name = "chroma" THEN "Chroma not found"
                                    ELSE "Shader not found")
             ELSE [r EXCEPT !.selected = Some(ParseInt(arg))]

\* Lines 244-274 of update_item_chroma.
UpdateItemChromaBegin(s, u, i, arg) ==
    /\ Free(s)
    /\ LET req == [Request("update_item_chroma", u, i, 0) EXCEPT !.arg = arg]
       IN  \E item_to_update \in First({r \in UserRows(u) : r.item_id = i}) :
             sess' = [sess EXCEPT ![s] =
               SelectCosmetic(req, QueryUser(u), item_to_update, arg,
                              ItemChromas(i), "chroma")]
    /\ UNCHANGED <<tables, clients>>

\* Lines 325-355 of update_item_shader.
UpdateItemShaderBegin(s, u, i, arg) ==
    /\ Free(s)
    /\ LET req == [Request("update_item_shader", u, i, 0) EXCEPT !.arg = arg]
       IN  \E item_to_update \in First({r \in UserRows(u) : r.item_id = i}) :
             sess' = [sess EXCEPT ![s] =
               SelectCosmetic(req, QueryUser(u), item_to_update, arg,
                              ItemShaders(i), "shader")]
    /\ UNCHANGED <<tables, clients>>

\* UPDATE user_items SET <column>=<value> WHERE user_item_id=<the loaded
\* row's>: emitted when the value differs from the loaded one.
SetSelection(tbl, row, column, value) ==
    LET New(r) ==
          IF r = row
          THEN (IF column = "selected_chroma_id"
                THEN [r EXCEPT !.selected_chroma_id = value]
                ELSE [r EXCEPT !.selected_shader_id = value])
          ELSE r
    IN  BagOfAll(New, tbl)

\* Line 276 of update_item_chroma and line 356 of update_item_shader:
\* session.commit().
UpdateItemCosmeticCommit(s) ==
    /\ sess[s].pc = "commit"
    /\ sess[s].op \in {"update_item_chroma", "update_item_shader"}
    /\ LET r == sess[s]
           chroma == r.op = "update_item_chroma"
       IN  /\ user_items' =
                SetSelection(user_items, Val(r.user_item),
                             IF chroma THEN "selected_chroma_id" ELSE "selected_shader_id",
                             Val(r.selected))
           /\ sess' = [sess EXCEPT ![s] =
                Respond(r, 200, IF chroma THEN "Item chroma updated successfully"
                                ELSE "Item shader updated successfully")]
    /\ UNCHANGED <<users, items, set_items, schedules, tokens, clients>>

\* ------------------------------------------------- update_item_favorite
\* The status arguments of a request: absent, or the given text.
FavoriteArgs == {None, Some("true"), Some("True"), Some("false"), Some("")}

\* status.lower(), on the texts of FavoriteArgs.
Lower(text) == IF text = "True" THEN "true" ELSE text

\* update_item_favorite lines 49-67: the arguments and the row of the user.
UpdateItemFavoriteBegin(s, u, i, status) ==
    /\ Free(s)
    /\ LET req == Request("update_item_favorite", u, i, 0)
       IN  \E item \in First({r \in UserRows(u) : r.item_id = i}) :
             sess' = [sess EXCEPT ![s] =
               IF i = 0 \/ status = None
               THEN Respond(req, 400, "Missing required fields")
               ELSE IF item = None
               THEN Respond(req, 404, "Item not found")
               ELSE [req EXCEPT !.pc = "commit", !.user_item = item,
                       !.selected = Some(Lower(Val(status)) = "true")]]
    /\ UNCHANGED <<tables, clients>>

\* An UPDATE of every row of the item, whoever owns it.
SetFavoriteOfItem(tbl, row, value) ==
    LET New(r) == IF r.item_id = row.item_id THEN [r EXCEPT !.favorite = value] ELSE r
    IN  BagOfAll(New, tbl)

\* UPDATE user_items SET favorite=<value> WHERE user_item_id=<the loaded row's>
SetFavorite(tbl, row, value) ==
    LET New(r) == IF r = row THEN [r EXCEPT !.favorite = value] ELSE r
    IN  BagOfAll(New, tbl)

\* update_item_favorite lines 68-71: item.favorite = status; session.commit().
UpdateItemFavoriteCommit(s) ==
    /\ sess[s].pc = "commit"
    /\ sess[s].op = "update_item_favorite"
    /\ LET r == sess[s]
       IN  /\ user_items' = SetFavorite(user_items, Val(r.user_item), Val(r.selected))
           /\ sess' = [sess EXCEPT ![s] = Respond(r, 200, "Item status updated successfully")]
    /\ UNCHANGED <<users, items, set_items, schedules, tokens, clients>>

\* ------------------------------------------- premium store management
\* set_id values a management request may carry: the sets', 0 and the id of
\* no set.
RequestSetIds == {0, 1, 2, 3}

\* The response of a management handler, which runs in one transaction.
Manage(op, status, body, exc) ==
    [Request(op, 0, 0, 0) EXCEPT !.pc = "done",
       !.response = [status |-> status, body |-> body, details |-> exc]]

\* create_premium_store_schedule lines 130-155: the row is inserted when the
\* set exists; UniqueConstraint('set_id', 'start_date', 'end_date') refuses a
\* second row of the same values.
CreatePremiumStoreSchedule(s, sid, start, end) ==
    /\ Free(s)
    /\ Cardinality(schedules) < MaxManagedSchedules
    /\ LET row == [set_id |-> sid, start_date |-> start, end_date |-> end]
           op == "create_premium_store_schedule"
       IN  IF sid = 0
           THEN /\ sess' = [sess EXCEPT ![s] = Manage(op, 400, "Missing required fields", "")]
                /\ schedules' = schedules
           ELSE IF sid \notin SetIds
           THEN /\ sess' = [sess EXCEPT ![s] = Manage(op, 404, "Premium store set not found", "")]
                /\ schedules' = schedules
           ELSE IF row \in schedules
           THEN /\ sess' = [sess EXCEPT ![s] =
                     Manage(op, 500, "Failed to create premium store schedule", "IntegrityError")]
                /\ schedules' = schedules
           ELSE /\ sess' = [sess EXCEPT ![s] =
                     Manage(op, 201, "Premium store schedule created successfully", "")]
                /\ schedules' = schedules \cup {row}
    /\ UNCHANGED <<users, items, user_items, set_items, tokens, clients>>

\* update_premium_store_schedule lines 210-240 for the schedule row old.
UpdatePremiumStoreSchedule(s, old, sid, start, end) ==
    /\ Free(s)
    /\ old \in schedules
    /\ LET row == [set_id |-> sid, start_date |-> start, end_date |-> end]
           op == "update_premium_store_schedule"
       IN  IF sid = 0
           THEN /\ sess' = [sess EXCEPT ![s] = Manage(op, 400, "Missing required fields", "")]
                /\ schedules' = schedules
           ELSE IF sid \notin SetIds
           THEN /\ sess' = [sess EXCEPT ![s] = Manage(op, 404, "Premium store set not found", "")]
                /\ schedules' = schedules
           ELSE IF row \in schedules \ {old}
           THEN /\ sess' = [sess EXCEPT ![s] =
                     Manage(op, 500, "Failed to update premium store schedule", "IntegrityError")]
                /\ schedules' = schedules
           ELSE /\ sess' = [sess EXCEPT ![s] =
                     Manage(op, 200, "Premium store schedule updated successfully", "")]
                /\ schedules' = (schedules \ {old}) \cup {row}
    /\ UNCHANGED <<users, items, user_items, set_items, tokens, clients>>

\* delete_premium_store_schedule lines 273-286 for the schedule row old.
DeletePremiumStoreSchedule(s, old) ==
    /\ Free(s)
    /\ old \in schedules
    /\ sess' = [sess EXCEPT ![s] =
         Manage("delete_premium_store_schedule", 200,
                "Premium store schedule deleted successfully", "")]
    /\ schedules' = schedules \ {old}
    /\ UNCHANGED <<users, items, user_items, set_items, tokens, clients>>

\* A schedule request for a schedule_id of no row (lines 223-225, 275-277).
ScheduleNotFound(s, op) ==
    /\ Free(s)
    /\ sess' = [sess EXCEPT ![s] = Manage(op, 404, "Premium store schedule not found", "")]
    /\ UNCHANGED <<tables, clients>>

\* update_premium_store_set lines 184-206: the associations of the set are
\* deleted and one is added for every id of item_ids that is the id of an item.
UpdatePremiumStoreSet(s, sid, item_ids) ==
    /\ Free(s)
    /\ LET op == "update_premium_store_set"
           added == {[set_id |-> sid, item_id |-> item_ids[k]] :
                       k \in {j \in DOMAIN item_ids : item_ids[j] \in DOMAIN items}}
       IN  IF sid \notin SetIds
           THEN /\ sess' = [sess EXCEPT ![s] = Manage(op, 404, "Premium store set not found", "")]
                /\ set_items' = set_items
           ELSE IF item_ids = << >>
           THEN /\ sess' = [sess EXCEPT ![s] = Manage(op, 400, "Missing required fields", "")]
                /\ set_items' = set_items
           ELSE /\ sess' = [sess EXCEPT ![s] =
                     Manage(op, 200, "Premium store set updated successfully", "")]
                /\ set_items' = {a \in set_items : a.set_id # sid} \cup added
    /\ UNCHANGED <<users, items, user_items, schedules, tokens, clients>>

\* ------------------------------------------------------ item management
\* The rows of item_types.
ItemTypeIds == {1, 2}

\* The fields of a create_item or update_item body the model keeps: a field
\* the JSON body lacks is None.
ItemData(types, silvers, golds, flags) ==
    [item_type_id : types, silver_cost : silvers, gold_cost : golds,
     is_general_store_item : flags]

\* create_item lines 181-210: the new row takes the next item_id; the type is
\* required, the costs are stored as given, null included, and
\* is_general_store_item is False when the body lacks it.
CreateItem(s, data) ==
    /\ Free(s)
    /\ Cardinality(DOMAIN items) < MaxItems
    /\ LET op == "create_item"
           item == [item_type_id |-> Val(data.item_type_id),
                    silver_cost |-> data.silver_cost,
                    gold_cost |-> data.gold_cost,
                    is_general_store_item |->
                        IF data.is_general_store_item # None
                        THEN Val(data.is_general_store_item) ELSE FALSE]
       IN  IF data.item_type_id = None \/ Val(data.item_type_id) = 0
           THEN /\ sess' = [sess EXCEPT ![s] = Manage(op, 400, "Missing required fields", "")]
                /\ items' = items
           ELSE IF Val(data.item_type_id) \notin ItemTypeIds
           THEN /\ sess' = [sess EXCEPT ![s] = Manage(op, 500, "", "IntegrityError")]
                /\ items' = items
           ELSE /\ sess' = [sess EXCEPT ![s] = Manage(op, 201, "Item created successfully", "")]
                /\ items' = items @@ (Cardinality(DOMAIN items) + 1 :> item)
    /\ UNCHANGED <<users, user_items, set_items, schedules, tokens, clients>>

\* update_item lines 261-296 for the item id i and the body data: an
\* item_type_id that is truthy and a cost or flag that is not null are
\* assigned; the foreign key refuses an item_type_id of no item type.
UpdateItem(s, i, data) ==
    /\ Free(s)
    /\ LET op == "update_item"
           typed == data.item_type_id # None /\ Val(data.item_type_id) # 0
           item == [item_type_id |-> IF typed THEN Val(data.item_type_id)
                                     ELSE items[i].item_type_id,
                    silver_cost |-> IF data.silver_cost # None THEN data.silver_cost
                                    ELSE items[i].silver_cost,
                    gold_cost |-> IF data.gold_cost # None THEN data.gold_cost
                                  ELSE items[i].gold_cost,
                    is_general_store_item |->
                        IF data.is_general_store_item # None
                        THEN Val(data.is_general_store_item)
                        ELSE items[i].is_general_store_item]
       IN  IF i \notin DOMAIN items
           THEN /\ sess' = [sess EXCEPT ![s] = Manage(op, 404, "Item not found", "")]
                /\ items' = items
           ELSE IF typed /\ Val(data.item_type_id) \notin ItemTypeIds
           THEN /\ sess' = [sess EXCEPT ![s] = Manage(op, 500, "", "IntegrityError")]
                /\ items' = items
           ELSE /\ sess' = [sess EXCEPT ![s] = Manage(op, 200, "Item updated successfully", "")]
                /\ items' = [items EXCEPT ![i] = item]
    /\ UNCHANGED <<users, user_items, set_items, schedules, tokens, clients>>

\* ------------------------------------------------------------ token gate
\* authenticate_user line 149: "exp" is utcnow() + 24 hours, here TokenLife
\* ticks of the clock.
TokenLife == 2

\* What a request carries as its Authorization header: none, a bearer token
\* that is no JWT of this server, or the token of jti k.
NoHeader == -1
Garbage == 0
RequestTokens == {NoHeader, Garbage} \cup 1 .. MaxTokens

RequiredRoles == {"user", "admin"}

\* jwt.decode(token, SECRET_KEY, algorithms=[ALGORITHM]): the payload of a
\* token this server signed whose "exp" has not passed; it raises otherwise.
Decodes(token) == token \in DOMAIN issued /\ utcnow < issued[token].exp

\* authenticate_user lines 125-162: a user with the right password gets a token
\* of a fresh jti, which is stored; a wrong email or password gets 401.
AuthenticateUser(s, u, password_ok) ==
    /\ Free(s)
    /\ Len(issued) < MaxTokens
    /\ LET req == Request("authenticate_user", u, 0, utcnow)
           jti == Len(issued) + 1
       IN  IF u \in DOMAIN users /\ password_ok
           THEN /\ issued' = Append(issued, [user_id |-> u, roles |-> {"user"},
                                             exp |-> utcnow + TokenLife])
                /\ tokens' = tokens \cup {jti}
                /\ sess' = [sess EXCEPT ![s] =
                     Respond([req EXCEPT !.jti = jti], 200, "User authenticated successfully")]
           ELSE /\ sess' = [sess EXCEPT ![s] = Respond(req, 401, "Invalid email or password")]
                /\ UNCHANGED <<tokens, issued>>
    /\ UNCHANGED <<users, items, user_items, set_items, schedules, utcnow>>

\* role_required lines 15-43, for a handler op that requires the role
\* required. When jwt.decode raises, session is still unbound at the finally
\* clause, whose "if session:" raises UnboundLocalError in place of the 401 the
\* except clause was returning.
RoleRequired(s, token, required, op) ==
    /\ Free(s)
    /\ LET req == Request(op, 0, 0, utcnow)
       IN  sess' = [sess EXCEPT ![s] =
             IF token = NoHeader
             THEN Respond(req, 401, "Token is missing or invalid")
             ELSE IF ~Decodes(token)
             THEN Raise(req, "Internal Server Error", "UnboundLocalError")
             ELSE IF token \notin tokens
             THEN Respond(req, 401, "Token is invalid or expired")
             ELSE IF required \notin issued[token].roles
             THEN Respond(req, 403, "Access denied: Required role(s) not found")
             ELSE [req EXCEPT !.pc = "handler", !.user_id = issued[token].user_id,
                     !.jti = token]]
    /\ UNCHANGED <<tables, clients>>

\* logout_user lines 527-542: the record of request.jti is deleted.
LogoutUser(s) ==
    /\ sess[s].pc = "handler"
    /\ sess[s].op = "logout_user"
    /\ LET r == sess[s]
       IN  IF r.jti \in tokens
           THEN /\ tokens' = tokens \ {r.jti}
                /\ sess' = [sess EXCEPT ![s] = Respond(r, 200, "User logged out successfully")]
           ELSE /\ tokens' = tokens
                /\ sess' = [sess EXCEPT ![s] =
                     Respond(r, 400, "Token not found or already invalidated")]
    /\ UNCHANGED <<users, items, user_items, set_items, schedules, clients>>

\* role_required line 43: return f(*args, **kwargs), for any other wrapped
\* handler f.
WrappedHandler(s) ==
    /\ sess[s].pc = "handler"
    /\ sess[s].op = "wrapped"
    /\ sess' = [sess EXCEPT ![s] = Respond(sess[s], 200, "handled")]
    /\ UNCHANGED <<tables, clients>>

\* Time passes.
Tick ==
    /\ utcnow < MaxClock
    /\ utcnow' = utcnow + 1
    /\ UNCHANGED <<tables, issued, sess>>

\* ------------------------------------------------------ persistence faults
\* session.commit() raises for a reason of the database (a lost connection, a
\* failed COMMIT): the handler answers 500 and session.close() rolls back.
CommitFails(s) ==
    /\ sess[s].pc = "commit"
    /\ LET r == sess[s]
           body == IF r.op = "equip_item" THEN "Failed to equip item"
                   ELSE IF r.op = "unequip_item" THEN "Failed to unequip item"
                   ELSE "Failed to buy item"
       IN  /\ users' = Flush(users, r, FALSE)
           /\ sess' = [sess EXCEPT ![s] = Raise(r, body, "OperationalError")]
    /\ UNCHANGED <<items, user_items, set_items, schedules, tokens, clients>>

\* ---------------------------------------------------------- specifications
Init ==
    /\ \E sv \in 0 .. MaxSilver, gv \in 0 .. MaxGold :
         users = [u \in Users |-> [gold_amount |-> gv, silver_amount |-> sv]]
    /\ items = Catalog
    /\ user_items = EmptyBag
    /\ set_items = SetItems
    /\ schedules = Schedules
    /\ tokens = {}
    /\ issued = << >>
    /\ utcnow = 0
    /\ sess = [s \in Sessions |-> Idle]

\* The response leaves the handler: the request slot is free again.
Return(s) ==
    /\ sess[s].pc = "done"
    /\ sess' = [sess EXCEPT ![s] = Idle]
    /\ UNCHANGED <<tables, clients>>

\* The steps of the purchase handlers, for a request slot s whose requests
\* carry a user of U and an item_id of I.
Purchase(s, U, I) ==
    \/ \E u \in U, i \in I : BuyGeneralBegin(s, u, i)
    \/ \E u \in U, i \in I, t \in Times : BuyPremiumBegin(s, u, i, t)
    \/ PurchaseCheck(s)
    \/ PurchaseCommit(s)

\* The steps of the equip and unequip handlers.
Equip(s, U, I) ==
    \/ \E u \in U, i \in I : EquipBegin(s, u, i)
    \/ EquipCommit(s)
    \/ \E u \in U, i \in I : UnequipBegin(s, u, i)
    \/ UnequipCommit(s)

\* The listings: one read each.
Listing(s, U) ==
    \/ \E u \in U, t \in Times : GetCurrentPremiumItems(s, u, t)
    \/ \E u \in U : GetStoreItems(s, u)

\* Requests one at a time, each run to completion before the next starts.
SeqNext ==
    \/ Purchase(1, Users, RequestItemIds)
    \/ Equip(1, Users, RequestItemIds)
    \/ Listing(1, Users)
    \/ Return(1)

SeqSpec == Init /\ [][SeqNext]_vars

\* Requests one at a time over a database whose commit may fail.
FaultNext ==
    \/ Purchase(1, Users, RequestItemIds)
    \/ Equip(1, Users, RequestItemIds)
    \/ CommitFails(1)
    \/ Return(1)

FaultSpec == Init /\ [][FaultNext]_vars

\* The premium store over any schedule table: listings and premium purchases.
ResolverInit ==
    /\ users = [u \in Users |-> [gold_amount |-> MaxGold, silver_amount |-> MaxSilver]]
    /\ items = Catalog
    /\ user_items = EmptyBag
    /\ set_items \in SetItemTables
    /\ schedules \in ScheduleTables(MaxSchedules)
    /\ tokens = {}
    /\ issued = << >>
    /\ utcnow = 0
    /\ sess = [s \in Sessions |-> Idle]

ResolverNext ==
    \/ \E i \in DOMAIN Catalog, t \in Times : BuyPremiumBegin(1, 1, i, t)
    \/ \E t \in Times : GetCurrentPremiumItems(1, 1, t)
    \/ Return(1)

ResolverSpec == ResolverInit /\ [][ResolverNext]_vars

\* The purchases, equips and unequips of user 1 while item types are changed
\* with update_item, one request at a time.
RetypeNext ==
    \/ \E i \in DOMAIN Catalog : BuyGeneralBegin(1, 1, i)
    \/ PurchaseCheck(1)
    \/ PurchaseCommit(1)
    \/ Equip(1, {1}, DOMAIN Catalog)
    \/ \E i \in RequestItemIds,
          data \in ItemData({None, Some(0), Some(1), Some(2), Some(3)},
                            {None}, {None}, {None}) :
         UpdateItem(1, i, data)
    \/ Return(1)

RetypeSpec == Init /\ [][RetypeNext]_vars

\* Two equip requests of user 1 at a time, their steps interleaved, for the
\* two items of item type 1 that user 1 buys first.
EquipRaceNext ==
    \/ \E i \in {1, 2} : BuyGeneralBegin(1, 1, i)
    \/ PurchaseCheck(1)
    \/ PurchaseCommit(1)
    \/ \E s \in Sessions :
         \/ \E i \in {1, 2} : EquipBegin(s, 1, i)
         \/ EquipCommit(s)
         \/ Return(s)

EquipRaceSpec == Init /\ [][EquipRaceNext]_vars

\* The catalog under create_item and update_item, and the general purchases of
\* user 1 for the premium item and the created item, one request at a time.
CatalogNext ==
    \/ \E data \in ItemData({None, Some(0), Some(1), Some(3)}, {None, Some(1)},
                              {None, Some(1)}, {None, Some(TRUE)}) :
         CreateItem(1, data)
    \/ \E i \in RequestItemIds,
          data \in ItemData({None}, {None, Some(1)}, {None},
                            {None, Some(TRUE), Some(FALSE)}) :
         UpdateItem(1, i, data)
    \/ \E i \in {3, 5} : BuyGeneralBegin(1, 1, i)
    \/ PurchaseCheck(1)
    \/ PurchaseCommit(1)
    \/ Return(1)

CatalogSpec == Init /\ [][CatalogNext]_vars

\* The two general purchase handlers side by side: the one of
\* store_management.py in slot 1 and the one of store.py in slot 2, for user 1.
TwinNext ==
    \/ \E i \in RequestItemIds : BuyGeneralBegin(1, 1, i)
    \/ \E i \in RequestItemIds : StoreBuyGeneralBegin(2, 1, i)
    \/ \E s \in Sessions :
         \/ PurchaseCheck(s)
         \/ PurchaseCommit(s)
         \/ Return(s)

TwinSpec == Init /\ [][TwinNext]_vars

\* Logins, gated requests, logouts and the clock, two requests in flight.
TokenNext ==
    \/ \E s \in Sessions, u \in Users, ok \in BOOLEAN : AuthenticateUser(s, u, ok)
    \/ \E s \in Sessions, token \in RequestTokens, required \in RequiredRoles,
          op \in {"logout_user", "wrapped"} : RoleRequired(s, token, required, op)
    \/ \E s \in Sessions :
         \/ LogoutUser(s)
         \/ WrappedHandler(s)
         \/ Return(s)
    \/ Tick

TokenInit ==
    /\ users = [u \in Users |-> [gold_amount |-> MaxGold, silver_amount |-> MaxSilver]]
    /\ items = Catalog
    /\ user_items = EmptyBag
    /\ set_items = SetItems
    /\ schedules = Schedules
    /\ tokens = {}
    /\ issued = << >>
    /\ utcnow = 0
    /\ sess = [s \in Sessions |-> Idle]

TokenSpec == TokenInit /\ [][TokenNext]_vars

\* The six requests of the claim on per-user isolation, one at a time: user 1
\* issues all of them, user 2 buys and equips.
IsolationItemIds == {0, 1, 2, 3}

IsolationArgs == {"", "c", "1", "3"}

IsolationNext ==
    \/ Purchase(1, Users, IsolationItemIds)
    \/ Equip(1, Users, IsolationItemIds)
    \/ \E i \in IsolationItemIds, status \in FavoriteArgs :
         UpdateItemFavoriteBegin(1, 1, i, status)
    \/ UpdateItemFavoriteCommit(1)
    \/ \E i \in IsolationItemIds, arg \in IsolationArgs :
         UpdateItemChromaBegin(1, 1, i, arg)
    \/ \E i \in IsolationItemIds, arg \in IsolationArgs :
         UpdateItemShaderBegin(1, 1, i, arg)
    \/ UpdateItemCosmeticCommit(1)
    \/ Return(1)

IsolationSpec == TokenInit /\ [][IsolationNext]_vars

\* The item_ids lists a set update may carry.
RequestItemLists == {<< >>, <<3>>, <<4>>, <<5>>}

\* The premium store while its schedules and set memberships are managed:
\* management requests, listings and purchases of the premium item, one
\* request at a time.
ManagedInit ==
    /\ users = [u \in Users |-> [gold_amount |-> MaxGold, silver_amount |-> MaxSilver]]
    /\ items = Catalog
    /\ user_items = EmptyBag
    /\ set_items = SetItems
    /\ schedules = Schedules
    /\ tokens = {}
    /\ issued = << >>
    /\ utcnow = 0
    /\ sess = [s \in Sessions |-> Idle]

ManagedNext ==
    \/ \E sid \in RequestSetIds, start \in Times, end \in Times :
         CreatePremiumStoreSchedule(1, sid, start, end)
    \/ \E old \in schedules, sid \in RequestSetIds, start \in Times, end \in Times :
         UpdatePremiumStoreSchedule(1, old, sid, start, end)
    \/ \E old \in schedules : DeletePremiumStoreSchedule(1, old)
    \/ \E op \in {"update_premium_store_schedule", "delete_premium_store_schedule"} :
         ScheduleNotFound(1, op)
    \/ \E sid \in RequestSetIds, item_ids \in RequestItemLists :
         UpdatePremiumStoreSet(1, sid, item_ids)
    \/ \E t \in Times : GetCurrentPremiumItems(1, 1, t)
    \/ \E t \in Times : BuyPremiumBegin(1, 1, 3, t)
    \/ Return(1)

ManagedSpec == ManagedInit /\ [][ManagedNext]_vars

\* The general purchases of user 1 and the cosmetic selections of every user,
\* one request at a time.
CosmeticNext ==
    \/ \E i \in DOMAIN Catalog : BuyGeneralBegin(1, 1, i)
    \/ PurchaseCheck(1)
    \/ PurchaseCommit(1)
    \/ \E u \in Users, i \in RequestItemIds, arg \in CosmeticArgs :
         UpdateItemChromaBegin(1, u, i, arg)
    \/ \E u \in Users, i \in RequestItemIds, arg \in CosmeticArgs :
         UpdateItemShaderBegin(1, u, i, arg)
    \/ UpdateItemCosmeticCommit(1)
    \/ Return(1)

CosmeticSpec == Init /\ [][CosmeticNext]_vars

\* Two purchase requests of one user at a time, their steps interleaved.
Next ==
    \E s \in Sessions :
        \/ Purchase(s, {1}, DOMAIN Catalog)
        \/ Return(s)

Spec == Init /\ [][Next]_vars

\* ------------------------------------------------------------------ claims
Equipped(u, i) == \E r \in RowsOf(u, i) : r.is_equipped

\* Item i is in a set one of whose schedules contains the instant t.
LiveAt(i, t) ==
    \E sc \in schedules :
        /\ sc.start_date <= t
        /\ t <= sc.end_date
        /\ [set_id |-> sc.set_id, item_id |-> i] \in set_items

\* u can buy the general-store item i: it is flagged, priced, not owned and
\* u's silver covers the price.
CanBuyGeneral(u, i) ==
    /\ i \in DOMAIN items
    /\ items[i].is_general_store_item
    /\ items[i].silver_cost # None
    /\ RowCount(u, i) = 0
    /\ users[u].silver_amount >= Val(items[i].silver_cost)

\* The request of slot s ends in this step.
Ends(s, op) == sess[s].pc # "done" /\ sess'[s].pc = "done" /\ sess'[s].op = op

\* C1: with requests run one at a time, a buy_general_item request of user u
\* for a general-store item i of price c that ends while u has no row for i and
\* silver_amount >= c (equality included) answers 200, leaves silver_amount at
\* the old value minus c and leaves exactly one row (u, i).
C1_BuyGeneralSucceeds ==
    [][\A u \in Users, i \in DOMAIN items :
         (/\ Ends(1, "buy_general")
          /\ sess'[1].user_id = u
          /\ sess'[1].item_id = i
          /\ CanBuyGeneral(u, i))
         => /\ sess'[1].response.status = 200
            /\ sess'[1].response.body = "Item bought successfully"
            /\ users'[u].silver_amount =
                   users[u].silver_amount - Val(items[i].silver_cost)
            /\ users'[u].gold_amount = users[u].gold_amount
            /\ RowCount(u, i)' = 1]_vars

\* A purchase at a balance equal to the price has succeeded.
C1_Witness ==
    /\ sess[1].pc = "done"
    /\ sess[1].op = "buy_general"
    /\ sess[1].response.status = 200
    /\ Val(sess[1].user_loaded).silver_amount = Val(Val(sess[1].item).silver_cost)
    /\ users[sess[1].user_id].silver_amount = 0
    /\ RowCount(sess[1].user_id, sess[1].item_id) = 1

\* C2: a buy_general_item request of u for an item i that an earlier request
\* of u bought (the query of line 64 finds the row) answers 400 'You already
\* own this item' and leaves silver_amount as the first request left it.
C2_SecondBuyAlreadyOwned ==
    [][\A u \in Users, i \in DOMAIN items :
         (/\ Ends(1, "buy_general")
          /\ sess'[1].user_id = u
          /\ sess'[1].item_id = i
          /\ items[i].is_general_store_item
          /\ RowCount(u, i) > 0)
         => /\ sess'[1].response.status = 400
            /\ sess'[1].response.body = "You already own this item"
            /\ users'[u] = users[u]]_vars

\* C3: two buy_general_item requests of one user for one item that both loaded
\* the balance b >= the price and both found no row: once both have ended,
\* exactly one answered 200 and the balance is b minus the price.
C3_OneOfTwoSucceeds ==
    \A s1, s2 \in Sessions :
        (/\ s1 # s2
         /\ sess[s1].pc = "done" /\ sess[s2].pc = "done"
         /\ sess[s1].op = "buy_general" /\ sess[s2].op = "buy_general"
         /\ sess[s1].user_id = sess[s2].user_id
         /\ sess[s1].item_id = sess[s2].item_id
         /\ sess[s1].response.details \in {"", "IntegrityError"}
         /\ sess[s2].response.details \in {"", "IntegrityError"}
         /\ sess[s1].response.status \in {200, 500}
         /\ sess[s2].response.status \in {200, 500}
         /\ sess[s1].user_loaded = sess[s2].user_loaded)
        => /\ (sess[s1].response.status = 200) # (sess[s2].response.status = 200)
           /\ users[sess[s1].user_id].silver_amount =
                  Val(sess[s1].user_loaded).silver_amount
                  - Val(Val(sess[s1].item).silver_cost)
           /\ RowCount(sess[s1].user_id, sess[s1].item_id) = 1

\* Both requests reached their commit; one was refused by the constraint.
C3_Witness ==
    /\ sess[1].pc = "done" /\ sess[2].pc = "done"
    /\ sess[1].op = "buy_general" /\ sess[2].op = "buy_general"
    /\ sess[1].item_id = sess[2].item_id
    /\ sess[1].user_loaded = sess[2].user_loaded
    /\ sess[1].response.status = 200
    /\ sess[2].response.details = "IntegrityError"

\* C4: two buy_general_item requests of one user for different items that both
\* loaded the balance b and both answered 200 leave the balance at b minus the
\* sum of the two prices, and b covers that sum.
C4_DebitsSerialize ==
    \A s1, s2 \in Sessions :
        (/\ s1 # s2
         /\ sess[s1].pc = "done" /\ sess[s2].pc = "done"
         /\ sess[s1].op = "buy_general" /\ sess[s2].op = "buy_general"
         /\ sess[s1].user_id = sess[s2].user_id
         /\ sess[s1].item_id # sess[s2].item_id
         /\ sess[s1].response.status = 200
         /\ sess[s2].response.status = 200
         /\ sess[s1].user_loaded = sess[s2].user_loaded)
        => LET b == Val(sess[s1].user_loaded).silver_amount
               c1 == Val(Val(sess[s1].item).silver_cost)
               c2 == Val(Val(sess[s2].item).silver_cost)
           IN  /\ users[sess[s1].user_id].silver_amount = b - c1 - c2
               /\ b >= c1 + c2

\* C5: with requests run one at a time over a database whose commit may fail,
\* every step leaves a user's balances and rows as they were, or adds one row
\* (u, i) and takes the price of i from one of u's balances: no step changes a
\* balance without adding the row, or adds a row without the debit.
C5_PurchaseAtomic ==
    [][\A u \in Users :
         \/ /\ users'[u] = users[u]
            /\ \A i \in DOMAIN items : RowCount(u, i)' = RowCount(u, i)
         \/ \E i \in DOMAIN items :
              /\ RowCount(u, i)' = RowCount(u, i) + 1
              /\ \A j \in DOMAIN items \ {i} : RowCount(u, j)' = RowCount(u, j)
              /\ \/ /\ items[i].silver_cost # None
                    /\ users'[u].silver_amount =
                           users[u].silver_amount - Val(items[i].silver_cost)
                    /\ users'[u].gold_amount = users[u].gold_amount
                 \/ /\ items[i].gold_cost # None
                    /\ users'[u].gold_amount =
                           users[u].gold_amount - Val(items[i].gold_cost)
                    /\ users'[u].silver_amount = users[u].silver_amount]_vars

\* A commit failed after the debit in memory: the balance is the loaded one and
\* no row was added.
C5_Witness ==
    /\ sess[1].pc = "done"
    /\ sess[1].op = "buy_general"
    /\ sess[1].response.details = "OperationalError"
    /\ Val(sess[1].user).silver_amount < Val(sess[1].user_loaded).silver_amount
    /\ users[sess[1].user_id] = Val(sess[1].user_loaded)
    /\ RowCount(sess[1].user_id, sess[1].item_id) = 0

\* C6: a buy_premium_item request of u at the instant now for an item i that
\* is live at now, that u has no row for and whose gold_cost u's gold_amount
\* covers answers 200, takes gold_cost from gold_amount and adds the row (u, i).
C6_BuyPremiumSucceeds ==
    [][\A u \in Users, i \in DOMAIN items :
         (/\ Ends(1, "buy_premium")
          /\ sess'[1].user_id = u
          /\ sess'[1].item_id = i
          /\ LiveAt(i, sess'[1].now)
          /\ RowCount(u, i) = 0
          /\ items[i].gold_cost # None
          /\ users[u].gold_amount >= Val(items[i].gold_cost))
         => /\ sess'[1].response.status = 200
            /\ users'[u].gold_amount = users[u].gold_amount - Val(items[i].gold_cost)
            /\ RowCount(u, i)' = 1]_vars

\* C7: a buy_premium_item request at the instant now for an item of the catalog
\* that is not live at now answers 404 'Item is not available for purchase or
\* does not exist' and changes no balance and no row.
C7_BuyPremiumNotAvailable ==
    [][\A u \in Users, i \in DOMAIN items :
         (/\ Ends(1, "buy_premium")
          /\ sess'[1].user_id = u
          /\ sess'[1].item_id = i
          /\ ~LiveAt(i, sess'[1].now))
         => /\ sess'[1].response.status = 404
            /\ sess'[1].response.body =
                   "Item is not available for purchase or does not exist"
            /\ users' = users
            /\ user_items' = user_items]_vars

\* The schedules of set sid.
SchedulesOf(sid) == {sc \in schedules : sc.set_id = sid}

\* The sets item i belongs to.
SetsOf(i) == {a.set_id : a \in {x \in set_items : x.item_id = i}}

\* C8: for an item i whose one set has the one schedule [t0, t1], the joined
\* query of the purchase and the listing both hold i at every instant t with
\* t0 <= t <= t1, both bounds included, and at no other instant; a listing
\* made at the instant now holds i exactly when t0 <= now <= t1.
C8_WindowInclusive ==
    \A i \in DOMAIN items, sid \in SetIds, sc \in schedules :
        (SetsOf(i) = {sid} /\ SchedulesOf(sid) = {sc})
        => /\ \A t \in Times :
                /\ AvailableItem(i, t) <=> (sc.start_date <= t /\ t <= sc.end_date)
                /\ BagIn(i, CurrentPremiumItems(t))
                       <=> (sc.start_date <= t /\ t <= sc.end_date)
           /\ (sess[1].pc = "done" /\ sess[1].op = "premium_items")
                => (BagIn(i, sess[1].items_list)
                       <=> (sc.start_date <= sess[1].now /\ sess[1].now <= sc.end_date))

\* A listing made at the last instant of the one schedule of item 4's one set
\* holds item 4, and the window is longer than an instant.
C8_Witness ==
    /\ sess[1].pc = "done"
    /\ sess[1].op = "premium_items"
    /\ SetsOf(4) = {2}
    /\ \E sc \in schedules :
         /\ SchedulesOf(2) = {sc}
         /\ sc.start_date < sc.end_date
         /\ sess[1].now = sc.end_date
    /\ BagIn(4, sess[1].items_list)
    /\ AvailableItem(4, sess[1].now)

\* C9: with requests run one at a time, a get_store_items request of u returns
\* each general-store item u has no row for once, and no other item.
C9_StoreListing ==
    \A u \in Users :
        (sess[1].pc = "done" /\ sess[1].op = "store_items" /\ sess[1].user_id = u)
        => /\ \A i \in DOMAIN items :
                CopiesIn(i, sess[1].items_list) =
                    IF items[i].is_general_store_item /\ RowCount(u, i) = 0
                    THEN 1 ELSE 0
           /\ BagToSet(sess[1].items_list) \subseteq DOMAIN items

\* u bought item 1: u's listing lacks it while the other user, who has no row
\* for it, would still be offered it.
C9_Witness ==
    /\ sess[1].pc = "done"
    /\ sess[1].op = "store_items"
    /\ sess[1].user_id = 1
    /\ RowCount(1, 1) = 1
    /\ RowCount(2, 1) = 0
    /\ ~BagIn(1, sess[1].items_list)
    /\ BagIn(2, sess[1].items_list)
    /\ BagIn(1, StoreItems(2))

\* C10: with requests run one at a time, an equip_item request of u for b that
\* commits while u's row for another item a of b's item type is equipped (as a
\* successful equip(u, a) left it) leaves a unequipped and b equipped.
C10_EquipReplaces ==
    [][\A u \in Users, a \in DOMAIN items, b \in DOMAIN items :
         (/\ Ends(1, "equip_item")
          /\ sess'[1].response.status = 200
          /\ sess'[1].user_id = u
          /\ sess'[1].item_id = b
          /\ a # b
          /\ items[a].item_type_id = items[b].item_type_id
          /\ Equipped(u, a))
         => /\ ~Equipped(u, a)'
            /\ Equipped(u, b)'
            /\ RowCount(u, a)' = 1]_vars

\* equip(u, 2) has unequipped item 1, which an earlier equip had equipped.
C10_Witness ==
    /\ sess[1].pc = "done"
    /\ sess[1].op = "equip_item"
    /\ sess[1].item_id = 2
    /\ sess[1].response.status = 200
    /\ [item_id |-> 1, is_equipped |-> FALSE] \in sess[1].pending
    /\ ~Equipped(sess[1].user_id, 1)
    /\ Equipped(sess[1].user_id, 2)

\* The number of u's rows that are equipped and whose item has the type ty.
EquippedCount(u, ty) ==
    BagCardinality([r \in {x \in UserRows(u) : x.is_equipped
                                              /\ items[x.item_id].item_type_id = ty}
                    |-> user_items[r]])

ItemTypes == {items[i].item_type_id : i \in DOMAIN items}

\* C11: with purchase, equip and unequip requests run one at a time and item
\* types fixed, every user has at most one equipped row per item type.
C11_OneEquippedPerType ==
    \A u \in Users, ty \in ItemTypes : EquippedCount(u, ty) <= 1

\* A user owns both items of type 1 and the item 4 of type 2; after equips of
\* all three, one item of each type is equipped.
C11_Witness ==
    /\ sess[1].pc = "done"
    /\ sess[1].op = "equip_item"
    /\ sess[1].response.status = 200
    /\ \E u \in Users :
         /\ RowCount(u, 1) = 1 /\ RowCount(u, 2) = 1 /\ RowCount(u, 4) = 1
         /\ ~Equipped(u, 1) /\ Equipped(u, 2) /\ Equipped(u, 4)
         /\ [item_id |-> 1, is_equipped |-> FALSE] \in sess[1].pending

\* The step is one of the request of slot s.
StepOf(s) == sess'[s] # sess[s]

\* The step ends a purchase request of slot s with the success outcome.
PurchaseSucceeds(s) ==
    /\ sess[s].pc = "commit"
    /\ sess'[s].pc = "done"
    /\ sess'[s].response.status = 200

\* C12: every step of a buy_general_item or buy_premium_item request other
\* than the one that ends it with 200, return of a 4xx or 5xx response
\* included, leaves every balance and the user_items table as they were: a
\* request that does not succeed has changed nothing.
C12_FailureChangesNothing ==
    [][\A s \in Sessions :
         (StepOf(s) /\ ~PurchaseSucceeds(s))
         => /\ users' = users
            /\ user_items' = user_items]_vars

\* A request that passed every check and debited its user object in memory
\* ended without success, and the committed balance is the one the other,
\* successful request wrote.
C12_Witness ==
    /\ sess[1].pc = "done" /\ sess[2].pc = "done"
    /\ sess[1].response.status = 200
    /\ sess[2].response.status = 500
    /\ sess[2].user # None
    /\ Val(sess[2].user).silver_amount < Val(sess[2].user_loaded).silver_amount
    /\ users[sess[1].user_id] = Val(sess[1].user)
    /\ RowCount(sess[2].user_id, sess[2].item_id) = 1

\* C13: with requests run one at a time, a buy_general_item request of u for a
\* priced general-store item i that u has no row for answers 400 'Not enough
\* silver to buy this item' exactly when silver_amount < silver_cost, and then
\* adds no row and leaves both balances as they were.
C13_InsufficientFunds ==
    [][\A u \in Users, i \in DOMAIN items :
         (/\ Ends(1, "buy_general")
          /\ sess'[1].user_id = u
          /\ sess'[1].item_id = i
          /\ items[i].is_general_store_item
          /\ items[i].silver_cost # None
          /\ RowCount(u, i) = 0)
         => LET refused ==
                  /\ sess'[1].response.status = 400
                  /\ sess'[1].response.body = "Not enough silver to buy this item"
            IN  /\ refused <=> users[u].silver_amount < Val(items[i].silver_cost)
                /\ refused => /\ users' = users
                              /\ user_items' = user_items]_vars

\* A purchase one silver short of the price has been refused.
C13_Witness ==
    /\ sess[1].pc = "done"
    /\ sess[1].op = "buy_general"
    /\ sess[1].response.body = "Not enough silver to buy this item"
    /\ users[sess[1].user_id].silver_amount + 1 = Val(Val(sess[1].item).silver_cost)
    /\ RowCount(sess[1].user_id, sess[1].item_id) = 0

\* C14: with requests run one at a time, a buy_general_item request for an
\* item_id i that is the id of no item, or of an item whose
\* is_general_store_item is false, answers 404 'User or Item not found'
\* whatever the user's balances, and adds no row and takes no silver.
C14_ItemNotFound ==
    [][\A u \in Users, i \in RequestItemIds :
         (/\ Ends(1, "buy_general")
          /\ sess'[1].user_id = u
          /\ sess'[1].item_id = i
          /\ (i \notin DOMAIN items \/ ~items[i].is_general_store_item))
         => /\ sess'[1].response.status = 404
            /\ sess'[1].response.body = "User or Item not found"
            /\ users' = users
            /\ user_items' = user_items]_vars

\* C15: over every interleaving of the steps of purchase requests, the
\* user_items table holds at most one row per (user_id, item_id).
C15_UniqueRows ==
    \A u \in Users, i \in DOMAIN items : RowCount(u, i) <= 1

\* Two requests for one item both found no row and both reached their commit:
\* the second INSERT was refused and one row exists.
C15_Witness ==
    \E s1, s2 \in Sessions :
        /\ sess[s1].pc = "done" /\ sess[s2].pc = "commit"
        /\ sess[s1].response.status = 200
        /\ sess[s1].user_id = sess[s2].user_id
        /\ sess[s1].item_id = sess[s2].item_id
        /\ sess[s2].user_item = None
        /\ RowCount(sess[s2].user_id, sess[s2].item_id) = 1

\* C16: from non-negative balances and a catalog of non-negative prices, over
\* every interleaving of the steps of purchase requests, every user's
\* gold_amount and silver_amount are >= 0.
C16_BalancesNonNegative ==
    \A u \in Users : users[u].gold_amount >= 0 /\ users[u].silver_amount >= 0

\* Two requests of one user loaded the same balance, which covers each price
\* but not their sum; both committed and the balance is not negative.
C16_Witness ==
    /\ sess[1].pc = "done" /\ sess[2].pc = "done"
    /\ sess[1].response.status = 200 /\ sess[2].response.status = 200
    /\ sess[1].user_id = sess[2].user_id
    /\ sess[1].user_loaded = sess[2].user_loaded
    /\ Val(sess[1].user_loaded).silver_amount <
           Val(Val(sess[1].item).silver_cost) + Val(Val(sess[2].item).silver_cost)
    /\ users[sess[1].user_id].silver_amount >= 0

\* C17: with requests run one at a time, the row a purchase that answers 200
\* has added is not equipped and not a favorite, has item_level 1, item_xp 0
\* and prestige_level 0, and has no chroma and no shader selected.
C17_RowDefaults ==
    [][\A u \in Users, i \in DOMAIN items :
         (/\ Ends(1, "buy_general") \/ Ends(1, "buy_premium")
          /\ sess'[1].response.status = 200
          /\ sess'[1].user_id = u
          /\ sess'[1].item_id = i)
         => /\ RowsOf(u, i) = {}
            /\ RowsOf(u, i)' # {}
            /\ \A r \in RowsOf(u, i)' :
                 /\ r.is_equipped = FALSE
                 /\ r.favorite = FALSE
                 /\ r.item_level = 1
                 /\ r.item_xp = 0
                 /\ r.prestige_level = 0
                 /\ r.selected_chroma_id = None
                 /\ r.selected_shader_id = None]_vars

\* A purchase has just added a row to a user who already had an equipped one.
C17_Witness ==
    /\ sess[1].pc = "done"
    /\ sess[1].op = "buy_general"
    /\ sess[1].response.status = 200
    /\ \E r \in RowsOf(sess[1].user_id, sess[1].item_id) :
         r.item_level = 1 /\ ~r.is_equipped /\ ~r.favorite
    /\ \E r \in UserRows(sess[1].user_id) : r.is_equipped

\* Every selection of every row is null or names a chroma (shader) of the
\* row's item.
SelectionsValid ==
    \A r \in BagToSet(user_items) :
        /\ r.selected_chroma_id # None
             => /\ Val(r.selected_chroma_id) \in DOMAIN Chromas
                /\ Chromas[Val(r.selected_chroma_id)] = r.item_id
        /\ r.selected_shader_id # None
             => /\ Val(r.selected_shader_id) \in DOMAIN Shaders
                /\ Shaders[Val(r.selected_shader_id)] = r.item_id

\* The request that ends in this step is a selection for a row u owns, named
\* by op, whose argument is the decimal text of n.
SelectionEnds(op, u, i, n) ==
    /\ Ends(1, op)
    /\ sess'[1].user_id = u
    /\ sess'[1].item_id = i
    /\ RowCount(u, i) = 1
    /\ ParseInt(sess'[1].arg) = Some(n)

\* C18: with requests run one at a time, every row's selected_chroma_id is
\* null or the id of a chroma of the row's item, and likewise
\* selected_shader_id; a selection request for an owned row whose number is
\* the id of no chroma (shader) or of one of another item answers 404 and
\* leaves user_items as it was; and one whose argument is 'c' answers 200 and
\* leaves the row's selection null.
C18_CosmeticSelection ==
    /\ []SelectionsValid
    /\ [][\A u \in Users, i \in DOMAIN items :
            /\ \A n \in 0 .. 4 :
                 /\ (/\ SelectionEnds("update_item_chroma", u, i, n)
                     /\ (n \notin DOMAIN Chromas \/ Chromas[n] # i))
                    => /\ sess'[1].response.status = 404
                       /\ user_items' = user_items
                 /\ (/\ SelectionEnds("update_item_shader", u, i, n)
                     /\ (n \notin DOMAIN Shaders \/ Shaders[n] # i))
                    => /\ sess'[1].response.status = 404
                       /\ user_items' = user_items
            /\ (/\ Ends(1, "update_item_chroma") \/ Ends(1, "update_item_shader")
                /\ sess'[1].user_id = u
                /\ sess'[1].item_id = i
                /\ RowCount(u, i) = 1
                /\ sess'[1].arg = "c")
               => /\ sess'[1].response.status = 200
                  /\ \A r \in RowsOf(u, i)' :
                       IF sess'[1].op = "update_item_chroma"
                       THEN r.selected_chroma_id = None
                       ELSE r.selected_shader_id = None]_vars

\* A request with 'c' has cleared the chroma 3 that the row of item 2 had
\* selected, while the row of item 1 keeps chroma 2 and shader 1.
C18_Witness ==
    /\ sess[1].pc = "done"
    /\ sess[1].op = "update_item_chroma"
    /\ sess[1].item_id = 2
    /\ sess[1].arg = "c"
    /\ sess[1].response.status = 200
    /\ Val(sess[1].user_item).selected_chroma_id = Some(3)
    /\ \E r \in RowsOf(sess[1].user_id, 2) : r.selected_chroma_id = None
    /\ \E r \in RowsOf(sess[1].user_id, 1) :
         r.selected_chroma_id = Some(2) /\ r.selected_shader_id = Some(1)

\* C19: with requests run one at a time, an unequip_item request of u for an
\* item i of the catalog that u has no row for answers 404 'Item not found'
\* and changes nothing; one for an item u has a row for answers 200, leaves
\* that row with is_equipped false and every other column as it was, and
\* leaves every other row and both balances of every user as they were.
C19_UnequipFrame ==
    [][\A u \in Users, i \in DOMAIN items :
         (/\ Ends(1, "unequip_item")
          /\ sess'[1].user_id = u
          /\ sess'[1].item_id = i)
         => /\ users' = users
            /\ IF RowCount(u, i) = 0
               THEN /\ sess'[1].response.status = 404
                    /\ sess'[1].response.body = "Item not found"
                    /\ user_items' = user_items
               ELSE /\ sess'[1].response.status = 200
                    /\ BagCardinality(user_items') = BagCardinality(user_items)
                    /\ \A r \in BagToSet(user_items) :
                         IF r.user_id = u /\ r.item_id = i
                         THEN CopiesIn([r EXCEPT !.is_equipped = FALSE], user_items')
                                  = CopiesIn(r, user_items)
                         ELSE CopiesIn(r, user_items') = CopiesIn(r, user_items)]_vars

\* An equipped row has been unequipped while the user's row of the other item
\* type stays equipped.
C19_Witness ==
    /\ sess[1].pc = "done"
    /\ sess[1].op = "unequip_item"
    /\ sess[1].response.status = 200
    /\ Val(sess[1].user_item).is_equipped
    /\ ~Equipped(sess[1].user_id, sess[1].item_id)
    /\ \E r \in UserRows(sess[1].user_id) :
         r.is_equipped /\ r.item_id # sess[1].item_id

\* C20: a purchase request that reaches its commit when another request has
\* committed the row of its (user_id, item_id), so that its INSERT conflicts
\* with the unique constraint, answers 400 'You already own this item', and
\* its debit is not committed: the balances stay as the winner left them.
C20_ConflictIsAlreadyOwned ==
    [][\A s \in Sessions :
         (/\ sess[s].pc = "commit"
          /\ sess[s].op \in {"buy_general", "buy_premium"}
          /\ StepOf(s)
          /\ RowCount(sess[s].user_id, sess[s].item_id) > 0)
         => /\ sess'[s].response.status = 400
            /\ sess'[s].response.body = "You already own this item"
            /\ users' = users
            /\ user_items' = user_items]_vars

\* C21: over every association table and schedule table of the bounds and
\* every instant t, an item passes the joined existence query of
\* buy_premium_item at t exactly when the list get_current_premium_items
\* builds at t holds it; a listing made at the instant now holds exactly the
\* items that pass the purchase's query at now.
C21_CheckAgreesWithListing ==
    /\ \A i \in DOMAIN items, t \in Times :
         AvailableItem(i, t) <=> BagIn(i, CurrentPremiumItems(t))
    /\ (sess[1].pc = "done" /\ sess[1].op = "premium_items")
         => \A i \in DOMAIN items :
              BagIn(i, sess[1].items_list) <=> AvailableItem(i, sess[1].now)

\* A listing holds item 3, which is in two sets of which one is scheduled at
\* the listing's instant, and lacks item 4, whose set is the one not scheduled.
C21_Witness ==
    /\ sess[1].pc = "done"
    /\ sess[1].op = "premium_items"
    /\ set_items = SetItemsTwoSets
    /\ CurrentSets(sess[1].now) = {1}
    /\ BagIn(3, sess[1].items_list) /\ AvailableItem(3, sess[1].now)
    /\ ~BagIn(4, sess[1].items_list) /\ ~AvailableItem(4, sess[1].now)

\* C22: an item of the catalog is live at t, and is once in the premium
\* listing made at t, when some schedule of some set it belongs to contains t,
\* however many schedules and sets do; an item none of whose sets has a
\* schedule that contains t is not live and not in the listing.
C22_AnyCoveringSchedule ==
    \A i \in DOMAIN items, t \in Times :
        LET covering == {sc \in schedules :
                           /\ sc.set_id \in SetsOf(i)
                           /\ sc.start_date <= t /\ t <= sc.end_date}
        IN  /\ AvailableItem(i, t) <=> covering # {}
            /\ CopiesIn(i, CurrentPremiumItems(t)) = IF covering # {} THEN 1 ELSE 0
            /\ (sess[1].pc = "done" /\ sess[1].op = "premium_items" /\ sess[1].now = t)
                 => CopiesIn(i, sess[1].items_list) = IF covering # {} THEN 1 ELSE 0

\* A listing made at an instant where both sets of item 3 are scheduled holds
\* item 3 once.
C22_Witness ==
    /\ sess[1].pc = "done"
    /\ sess[1].op = "premium_items"
    /\ SetsOf(3) = {1, 2}
    /\ CurrentSets(sess[1].now) = {1, 2}
    /\ CopiesIn(3, ItemIdsOfSets(CurrentSets(sess[1].now))) = 2
    /\ CopiesIn(3, sess[1].items_list) = 1

\* C23: while schedules are created, updated and deleted and set memberships
\* replaced, every premium listing holds exactly the items that are live at
\* its instant under the schedules and memberships of the table as it is at
\* the call, and no premium purchase of an item that is not live under them
\* succeeds: an item whose only covering schedule was deleted is in no later
\* listing and in no later successful purchase.
C23_LiveStatusRecomputed ==
    /\ []((sess[1].pc = "done" /\ sess[1].op = "premium_items")
           => \A i \in DOMAIN items :
                BagIn(i, sess[1].items_list) <=> LiveAt(i, sess[1].now))
    /\ [][\A i \in DOMAIN items :
            (/\ Ends(1, "buy_premium")
             /\ sess'[1].item_id = i
             /\ ~LiveAt(i, sess'[1].now))
            => /\ sess'[1].response.status # 200
               /\ users' = users
               /\ user_items' = user_items]_vars

\* The one schedule of set 1, which held instant 1, is gone, and a listing made
\* at instant 1 does not hold item 3, which is still in set 1.
C23_Witness ==
    /\ sess[1].pc = "done"
    /\ sess[1].op = "premium_items"
    /\ sess[1].now = 1
    /\ [set_id |-> 1, item_id |-> 3] \in set_items
    /\ SchedulesOf(1) = {}
    /\ ~BagIn(3, sess[1].items_list)

\* C24: with requests run one at a time, no step of a buy_general_item request
\* changes a gold_amount and no step of a buy_premium_item request changes a
\* silver_amount, and no step of either changes a balance of a user other than
\* the request's; and on every loaded user and item the funds check of
\* buy_general_item (lines 69-73) refuses exactly when silver_amount <
\* silver_cost and leaves gold_amount alone, while the one of buy_premium_item
\* (lines 154-157) refuses exactly when gold_amount < gold_cost and leaves
\* silver_amount alone.
C24_CurrenciesIndependent ==
    /\ [](\A s \in Sessions :
            sess[s].pc = "check_owned"
            => LET r == sess[s]
                   user == Val(r.user)
                   item == Val(r.item)
                   g == BuyGeneralCheckFunds(r)
                   p == BuyPremiumCheckFunds(r)
               IN  /\ g.user = Some([user EXCEPT !.silver_amount = Val(g.user).silver_amount])
                   /\ p.user = Some([user EXCEPT !.gold_amount = Val(p.user).gold_amount])
                   /\ item.silver_cost # None
                        => (g.response.status = 400
                              <=> user.silver_amount < Val(item.silver_cost))
                   /\ item.gold_cost # None
                        => (p.response.status = 400
                              <=> user.gold_amount < Val(item.gold_cost)))
    /\ [][\A u \in Users :
            /\ (StepOf(1) /\ sess'[1].op = "buy_general")
                 => users'[u].gold_amount = users[u].gold_amount
            /\ (StepOf(1) /\ sess'[1].op = "buy_premium")
                 => users'[u].silver_amount = users[u].silver_amount
            /\ (StepOf(1) /\ sess'[1].op \in {"buy_general", "buy_premium"}
                           /\ sess'[1].user_id # u)
                 => users'[u] = users[u]]_vars

\* A user without gold has bought item 4, which has a gold_cost, for silver:
\* the gold_amount is still 0 and the other user's balances are the loaded
\* ones.
C24_Witness ==
    /\ sess[1].pc = "done"
    /\ sess[1].op = "buy_general"
    /\ sess[1].item_id = 4
    /\ sess[1].response.status = 200
    /\ users[sess[1].user_id].gold_amount = 0
    /\ Val(sess[1].item).gold_cost = Some(1)
    /\ users[sess[1].user_id].silver_amount < Val(sess[1].user_loaded).silver_amount
    /\ \E v \in Users \ {sess[1].user_id} : users[v] = Val(sess[1].user_loaded)

\* C25: an equip_item request of u for i that answers 200 leaves i equipped
\* and every other row of u whose item has i's item type not equipped,
\* whatever rows were equipped before, two or more rows of one type included
\* (as after update_item changed the type of an equipped item).
C25_EquipFromAnyState ==
    [][\A u \in Users, i \in DOMAIN items :
         (/\ Ends(1, "equip_item")
          /\ sess'[1].response.status = 200
          /\ sess'[1].user_id = u
          /\ sess'[1].item_id = i)
         => /\ Equipped(u, i)'
            /\ \A r \in UserRows(u)' :
                 (r.item_id # i /\ items[r.item_id].item_type_id = items[i].item_type_id)
                 => ~r.is_equipped]_vars

\* C26: once two equip_item requests of one user for two different owned
\* items of one item type, their steps interleaved in any order, have both
\* answered 200, at most one of the two items is equipped.
C26_ConcurrentEquip ==
    \A s1, s2 \in Sessions :
        (/\ sess[s1].pc = "done" /\ sess[s2].pc = "done"
         /\ sess[s1].op = "equip_item" /\ sess[s2].op = "equip_item"
         /\ sess[s1].response.status = 200 /\ sess[s2].response.status = 200
         /\ sess[s1].user_id = sess[s2].user_id
         /\ sess[s1].item_id # sess[s2].item_id
         /\ items[sess[s1].item_id].item_type_id = items[sess[s2].item_id].item_type_id)
        => ~(/\ Equipped(sess[s1].user_id, sess[s1].item_id)
             /\ Equipped(sess[s2].user_id, sess[s2].item_id))

\* C27: after any sequence of create_item and update_item requests, every item
\* whose is_general_store_item is true has a silver_cost or a gold_cost that
\* is not null, and no buy_general_item request fails on comparing
\* silver_amount with a null silver_cost.
C27_GeneralItemsPriced ==
    /\ \A i \in DOMAIN items :
         items[i].is_general_store_item
         => (items[i].silver_cost # None \/ items[i].gold_cost # None)
    /\ (sess[1].pc = "done" /\ sess[1].op = "buy_general")
         => sess[1].response.details # "TypeError"

\* C28: the handler of store_management.py (slot 1) and the handler of store.py
\* (slot 2), given the same user and item and having loaded the same balances
\* from the same tables, come to the same point: both return the same
\* response, or both are about to commit the same debit and the same row.
C28_HandlersEquivalent ==
    (/\ sess[1].op = "buy_general" /\ sess[2].op = "store_buy_general"
     /\ sess[1].user_id = sess[2].user_id
     /\ sess[1].item_id = sess[2].item_id
     /\ sess[1].pc \in {"commit", "done"} /\ sess[2].pc \in {"commit", "done"}
     /\ sess[1].response.status # 200 /\ sess[2].response.status # 200
     /\ sess[1].user_loaded = sess[2].user_loaded
     /\ sess[1].user_item = sess[2].user_item)
    => /\ sess[1].pc = sess[2].pc
       /\ sess[1].response = sess[2].response
       /\ sess[1].user = sess[2].user

\* C29: a wrapped handler is entered only by a request whose token decodes,
\* whose jti is in the tokens table and whose roles hold the required role; a
\* request carrying a token whose jti logout has deleted is answered 401 and
\* never enters the handler; a logout removes the jti of its own token and no
\* other.
C29_TokenGate ==
    [][\A s \in Sessions :
         /\ (sess[s].pc = "idle" /\ sess'[s].pc = "handler")
              => /\ sess'[s].jti \in DOMAIN issued /\ utcnow < issued[sess'[s].jti].exp
                 /\ sess'[s].jti \in tokens
                 /\ issued[sess'[s].jti].roles \cap RequiredRoles # {}
                 /\ sess'[s].user_id = issued[sess'[s].jti].user_id
         /\ \A k \in DOMAIN issued :
              (k \notin tokens /\ sess[s].pc = "idle"
                 /\ RoleRequired(s, k, "user", sess'[s].op))
              => sess'[s].pc = "done" /\ sess'[s].response.status = 401
         /\ (sess[s].op = "logout_user" /\ sess[s].pc = "handler" /\ sess'[s].pc = "done")
              => tokens' = tokens \ {sess[s].jti}]_vars

\* C30: every step of a purchase, equip, unequip, favorite, chroma or shader
\* request of a user u leaves the balances and the user_items rows of every
\* other user v as they were.
C30_OtherUsersUntouched ==
    [][\A v \in Users :
         sess'[1].user_id # v
           => /\ users'[v] = users[v]
              /\ UserRows(v)' = UserRows(v)
              /\ \A r \in UserRows(v) : CopiesIn(r, user_items') = CopiesIn(r, user_items)]_vars

\* User 1 has made item 1 a favorite, with a chroma and equipped, while user 2
\* owns the same item with none of the three.
C30_Witness ==
    /\ sess[1].user_id = 1 /\ sess[1].op = "update_item_favorite"
    /\ sess[1].pc = "done" /\ sess[1].response.status = 200
    /\ \E r \in RowsOf(1, 1) :
         r.favorite /\ r.is_equipped /\ r.selected_chroma_id = Some(1)
    /\ \E r \in RowsOf(2, 1) :
         ~r.favorite /\ ~r.is_equipped /\ r.selected_chroma_id = None
    /\ users[1].silver_amount < users[2].silver_amount

====
